---- MODULE Spec2Model ----
(***************************************************************************)
(* Model of pkg/processor/runtime/python/py/run_handler.py: the Nuclio      *)
(* handler handler_job, which runs a user function for one inbound event    *)
(* and writes the run status, over the context that init_context built.     *)
(*                                                                          *)
(* Python dicts are TLA+ functions over the set of their keys, strings      *)
(* that the code builds by formatting are sequences of their fragments,     *)
(* and every collaborator imported from another package (the function       *)
(* loader, compose_inputs, the user function, parse_outputs, build_status,  *)
(* the run entity's refresh/_set_status/save) either raises or returns a    *)
(* value drawn from a small set.                                            *)
(***************************************************************************)
EXTENDS Integers, Sequences, FiniteSets, TLC

\* How many events the host may hold for one context at a time.
NumInvocations == 2

Invocations == 1..NumInvocations

----------------------------------------------------------------------------
(* Python dicts *)

EmptyDict == [k \in {} |-> ""]

\* {**a, **b}: the keys of both, b's value where both have the key.
DictUnpack(a, b) ==
    [k \in (DOMAIN a) \cup (DOMAIN b) |-> IF k \in DOMAIN b THEN b[k] ELSE a[k]]

\* d.get(k, default)
DictGet(d, k, default) == IF k \in DOMAIN d THEN d[k] ELSE default

\* d[k] = v
DictSet(d, k, v) == DictUnpack(d, k :> v)

----------------------------------------------------------------------------
(* Values *)

\* The args of the exceptions a collaborator may raise.
ErrArgs == {"('bad input',)", "('no output y',)"}

NoException == "none"

\* Run specs an event body may embed; spec.get(...) supplies the defaults.
EventSpecs ==
    { [source |-> [handler |-> "main:f"], inputs |-> [d |-> "event_ref"],
       parameters |-> [x |-> "5"], outputs |-> [a |-> "artifact"]],
      [parameters |-> [x |-> "5"]] }

\* Event bodies after deserialization: with or without "spec" and "project".
Bodies ==
    { [project |-> "p1", id |-> r, spec |-> s] : r \in {"r1", "r2"}, s \in EventSpecs }
    \cup { [project |-> "p1", id |-> "r1"],
           [id |-> "r1", spec |-> [parameters |-> [x |-> "5"]]],
           [id |-> "r1"] }

\* event.body is bytes (well-formed JSON of a body, or not) or already a mapping.
Events ==
    { [isBytes |-> b, wellFormed |-> TRUE, body |-> x] : b \in BOOLEAN, x \in Bodies }
    \cup { [isBytes |-> TRUE, wellFormed |-> FALSE, body |-> [id |-> "r1"]] }

NoEvent == [isBytes |-> FALSE, wellFormed |-> FALSE, body |-> EmptyDict]

\* The callables get_function_from_source may return: with or without __wrapped__.
Functions == { [name |-> "f", wrapped |-> w] : w \in BOOLEAN }

NoFunction == [name |-> "", wrapped |-> FALSE]

\* What compose_inputs may return for the given inputs and parameters.
ComposedArgs(inputs, parameters) == { DictUnpack(inputs, parameters) }

\* What the user function may return.
RawResults == { EmptyDict, [a |-> "1"] }

\* What parse_outputs may return for a raw result and the declared names.
ParsedOutputs(exec_result, names) ==
    { [n \in names \cap DOMAIN exec_result |-> exec_result[n]] }

\* What build_status may return for the results and the declared outputs.
BuiltStatuses(res, outputs) ==
    { [state |-> "completed", results |-> res] }

\* Statuses the platform may hold for the run when the context is built.
InitialStatuses ==
    { [state |-> s] : s \in {"pending", "running"} }

\* Fields the platform may write on the persisted status at any time.
ExternalValues == {"m1", "m2"}

----------------------------------------------------------------------------
(* Responses *)

NoResponse == [body |-> << >>, headers |-> EmptyDict, content_type |-> "", status_code |-> 0]

\* context.Response(body=msg, headers={}, content_type='text/plain', status_code=500)
render_error(msg) ==
    [body |-> msg, headers |-> EmptyDict, content_type |-> "text/plain", status_code |-> 500]

\* OkResponse with the status of an empty reply.
OkResponseNoContent ==
    [body |-> <<"OK">>, headers |-> EmptyDict, content_type |-> "text/plain", status_code |-> 204]

\* context.Response(body="OK", headers={}, content_type='text/plain', status_code=200)
OkResponse ==
    [body |-> <<"OK">>, headers |-> EmptyDict, content_type |-> "text/plain", status_code |-> 200]

\* The stage descriptions of the five except clauses.
ConfigurationStage == "function configuration"
InputsStageCopied == "function configuration"
InputsStage == "function inputs configuration"
ExecutionStage == "function execution"
BuildStatusStage == "building run status"
SetStatusStage == "run status setting"

\* f"Something got wrong during {stage}. {e.args}"
ErrorMessage(stage, args) == <<"Something got wrong during ", stage, ". ", args>>

----------------------------------------------------------------------------
VARIABLES
    pc,            \* where each invocation of handler_job stands
    event,         \* the event the host handed to it
    spec,          \* local spec
    project,       \* local project
    fnc,           \* local fnc
    fnc_args,      \* local fnc_args
    results,       \* local results
    status,        \* local status
    new_status,    \* local new_status
    e,             \* the args of the exception an except clause caught
    call,          \* the arguments the user function was called with
    trace,         \* the collaborator calls made, in order
    response,      \* the response returned to the host
    escaped,       \* the exception that left handler_job, if one did
    runSpec,       \* context.run.spec.to_dict()
    runStatus,     \* context.run.status.to_dict()
    remoteStatus,  \* the status the platform persists for the run RUN_ID names
    refreshed,     \* the status context.run.refresh() loaded for each invocation
    returned,      \* what the user function returned to handler_serve
    runId,         \* context.run.id, the run RUN_ID names
    otherStatus,   \* the status the platform persists for the other run
    ictx           \* init_context: its position and what it has done

locals == <<event, spec, project, fnc, fnc_args, results, status, new_status, e, call>>
vars == <<pc, locals, trace, response, escaped, runSpec, runStatus, remoteStatus,
          refreshed, returned, runId, otherStatus, ictx>>

\* The runs the platform holds.
RunIds == {"r1", "r2"}

\* The context once init_context has set project, run and root.
ContextReady ==
    [pc |-> "done", requirements |-> << >>, source |-> EmptyDict,
     attrs |-> {"project", "run", "root"}, installed |-> << >>, init_calls |-> 0,
     caught |-> NoException, response |-> NoResponse, escaped |-> NoException]

NoCall == [made |-> FALSE, positional |-> << >>, kwargs |-> EmptyDict]

\* The handlers' state before any event, and the runs the platform holds.
InitHandlers ==
    /\ pc = [i \in Invocations |-> "idle"]
    /\ event = [i \in Invocations |-> NoEvent]
    /\ spec = [i \in Invocations |-> EmptyDict]
    /\ project = [i \in Invocations |-> ""]
    /\ fnc = [i \in Invocations |-> NoFunction]
    /\ fnc_args = [i \in Invocations |-> EmptyDict]
    /\ results = [i \in Invocations |-> EmptyDict]
    /\ status = [i \in Invocations |-> EmptyDict]
    /\ new_status = [i \in Invocations |-> EmptyDict]
    /\ e = [i \in Invocations |-> NoException]
    /\ call = [i \in Invocations |-> NoCall]
    /\ trace = [i \in Invocations |-> << >>]
    /\ response = [i \in Invocations |-> NoResponse]
    /\ escaped = [i \in Invocations |-> NoException]
    /\ runSpec \in { [inputs |-> [d |-> "run_ref"]], EmptyDict }
    /\ remoteStatus \in InitialStatuses
    /\ refreshed = [i \in Invocations |-> EmptyDict]
    /\ returned = [i \in Invocations |-> NoResponse]
    /\ runId \in RunIds
    /\ otherStatus \in InitialStatuses

\* The state once init_context has run: context.run holds the run as persisted.
Init ==
    /\ InitHandlers
    /\ runStatus = remoteStatus
    /\ ictx = ContextReady

----------------------------------------------------------------------------
(* handler_job, lines 100-197 *)

KeyError == "KeyError"
UnboundLocalError == "UnboundLocalError"
JSONDecodeError == "JSONDecodeError"

\* Lines 108-115: the exception that leaves the initialization, or NoException.
InitializeRaises(ev) ==
    IF ~ev.isBytes THEN UnboundLocalError          \* line 110 reads body, never bound
    ELSE IF ~ev.wellFormed THEN JSONDecodeError    \* line 109, json.loads
    ELSE IF "spec" \notin DOMAIN ev.body THEN KeyError      \* line 113
    ELSE IF "project" \notin DOMAIN ev.body THEN KeyError   \* line 115
    ELSE NoException

\* Lines 113-114: body["spec"] with its inputs replaced by those of the context's run.
InitializeSpec(ev, rspec) ==
    DictSet(ev.body["spec"], "inputs", DictGet(rspec, "inputs", EmptyDict))

\* The host hands an event to handler_job; it handles one event at a time.
Receive(i) ==
    /\ \A j \in Invocations : pc[j] = "idle"
    /\ \E ev \in Events : event' = [event EXCEPT ![i] = ev]
    /\ pc' = [pc EXCEPT ![i] = "init"]
    /\ UNCHANGED <<spec, project, fnc, fnc_args, results, status, new_status, e, call,
                   trace, response, escaped, runSpec, runStatus, remoteStatus,
                   refreshed, returned, runId, otherStatus, ictx>>

\* Lines 108-115.
Initialize(i) ==
    /\ pc[i] = "init"
    /\ trace' = [trace EXCEPT ![i] =
                    IF event[i].isBytes THEN Append(@, "json.loads") ELSE @]
    /\ IF InitializeRaises(event[i]) # NoException
       THEN /\ escaped' = [escaped EXCEPT ![i] = InitializeRaises(event[i])]
            /\ pc' = [pc EXCEPT ![i] = "done"]
            /\ UNCHANGED <<spec, project>>
       ELSE /\ spec' = [spec EXCEPT ![i] = InitializeSpec(event[i], runSpec)]
            /\ project' = [project EXCEPT ![i] = event[i].body["project"]]
            /\ pc' = [pc EXCEPT ![i] = "configure"]
            /\ UNCHANGED escaped
    /\ UNCHANGED <<event, fnc, fnc_args, results, status, new_status, e, call,
                   response, runSpec, runStatus, remoteStatus,
                   refreshed, returned, runId, otherStatus, ictx>>

\* An except clause that renders the error and does not return.
ExceptNoReturn(i, stage, args) ==
    /\ e' = [e EXCEPT ![i] = args]
    /\ response' = [response EXCEPT ![i] = render_error(ErrorMessage(stage, args))]
    /\ pc' = [pc EXCEPT ![i] =
                 CASE pc[i] = "configure" -> "inputs"
                   [] pc[i] = "inputs" -> "execute"
                   [] pc[i] = "execute" -> "build"
                   [] pc[i] = "build" -> "refresh"
                   [] OTHER -> "done"]

\* An except clause that leaves the stage to be run again.
ExceptRetry(i, stage, args) ==
    /\ e' = [e EXCEPT ![i] = args]
    /\ response' = [response EXCEPT ![i] = render_error(ErrorMessage(stage, args))]
    /\ pc' = pc

\* An except clause that swallows the exception and acknowledges the event.
ExceptAcknowledges(i, stage, args) ==
    /\ e' = [e EXCEPT ![i] = args]
    /\ response' = [response EXCEPT ![i] = OkResponse]
    /\ pc' = [pc EXCEPT ![i] = "done"]

\* An except clause of handler_job: msg = f"...{stage}. {e.args}"; return render_error(msg, context)
Except(i, stage, args) ==
    /\ e' = [e EXCEPT ![i] = args]
    /\ response' = [response EXCEPT ![i] = render_error(ErrorMessage(stage, args))]
    /\ pc' = [pc EXCEPT ![i] = "done"]

\* Lines 120-125.
Configure(i) ==
    /\ pc[i] = "configure"
    /\ trace' = [trace EXCEPT ![i] = Append(@, "get_function_from_source")]
    /\ \/ \E a \in ErrArgs :
            /\ Except(i, ConfigurationStage, a)
            /\ UNCHANGED fnc
       \/ \E f \in Functions :
            /\ fnc' = [fnc EXCEPT ![i] = f]
            /\ pc' = [pc EXCEPT ![i] = "inputs"]
            /\ UNCHANGED <<e, response>>
    /\ UNCHANGED <<event, spec, project, fnc_args, results, status, new_status, call,
                   escaped, runSpec, runStatus, remoteStatus,
                   refreshed, returned, runId, otherStatus, ictx>>

\* Lines 131-144.
SetInputs(i) ==
    /\ pc[i] = "inputs"
    /\ trace' = [trace EXCEPT ![i] = Append(@, "compose_inputs")]
    /\ \/ \E a \in ErrArgs :
            /\ Except(i, InputsStage, a)
            /\ UNCHANGED fnc_args
       \/ \E args \in ComposedArgs(DictGet(spec[i], "inputs", EmptyDict),
                                   DictGet(spec[i], "parameters", EmptyDict)) :
            /\ fnc_args' = [fnc_args EXCEPT ![i] = args]
            /\ pc' = [pc EXCEPT ![i] = "execute"]
            /\ UNCHANGED <<e, response>>
    /\ UNCHANGED <<event, spec, project, fnc, results, status, new_status, call,
                   escaped, runSpec, runStatus, remoteStatus,
                   refreshed, returned, runId, otherStatus, ictx>>

\* Line 153: fnc(project, **fnc_args)
WrappedCall(proj, args) == [made |-> TRUE, positional |-> <<proj>>, kwargs |-> args]

\* Line 155: fnc(**fnc_args)
PlainCall(proj, args) == [made |-> TRUE, positional |-> << >>, kwargs |-> args]

\* Line 152: hasattr(fnc, '__wrapped__')
IsWrapped(f) == f.wrapped

\* Lines 156-158: does the plain function's return value go through parse_outputs
UsesParseOutputs(f) == ~IsWrapped(f)

\* Lines 150-162.
Execute(i) ==
    /\ pc[i] = "execute"
    /\ call' = [call EXCEPT ![i] = IF IsWrapped(fnc[i])
                                   THEN WrappedCall(project[i], fnc_args[i])
                                   ELSE PlainCall(project[i], fnc_args[i])]
    /\ \/ \E a \in ErrArgs :                       \* the user function raises
            /\ trace' = [trace EXCEPT ![i] = Append(@, "fnc")]
            /\ Except(i, ExecutionStage, a)
            /\ UNCHANGED results
       \/ /\ ~UsesParseOutputs(fnc[i])
          /\ trace' = [trace EXCEPT ![i] = Append(@, "fnc")]
          /\ \E r \in RawResults : results' = [results EXCEPT ![i] = r]
          /\ pc' = [pc EXCEPT ![i] = "build"]
          /\ UNCHANGED <<e, response>>
       \/ /\ UsesParseOutputs(fnc[i])
          /\ trace' = [trace EXCEPT ![i] = Append(Append(@, "fnc"), "parse_outputs")]
          /\ \E exec_result \in RawResults :
               \/ \E a \in ErrArgs :               \* parse_outputs raises
                    /\ Except(i, ExecutionStage, a)
                    /\ UNCHANGED results
               \/ \E r \in ParsedOutputs(exec_result,
                                         DOMAIN DictGet(spec[i], "outputs", EmptyDict)) :
                    /\ results' = [results EXCEPT ![i] = r]
                    /\ pc' = [pc EXCEPT ![i] = "build"]
                    /\ UNCHANGED <<e, response>>
    /\ UNCHANGED <<event, spec, project, fnc, fnc_args, status, new_status,
                   escaped, runSpec, runStatus, remoteStatus,
                   refreshed, returned, runId, otherStatus, ictx>>

\* Lines 168-173.
BuildStatus(i) ==
    /\ pc[i] = "build"
    /\ trace' = [trace EXCEPT ![i] = Append(@, "build_status")]
    /\ \/ \E a \in ErrArgs :
            /\ Except(i, BuildStatusStage, a)
            /\ UNCHANGED status
       \/ \E s \in BuiltStatuses(results[i], DictGet(spec[i], "outputs", EmptyDict)) :
            /\ status' = [status EXCEPT ![i] = s]
            /\ pc' = [pc EXCEPT ![i] = "refresh"]
            /\ UNCHANGED <<e, response>>
    /\ UNCHANGED <<event, spec, project, fnc, fnc_args, results, new_status, call,
                   escaped, runSpec, runStatus, remoteStatus,
                   refreshed, returned, runId, otherStatus, ictx>>

\* The run an invocation names in its event.
RecordOfEvent(i) == DictGet(event[i].body, "id", runId)

\* Lines 181-184: the run record behind context.run, the one init_context loaded
\* (lines 72-80); the invocation's event has no part in it.
RecordOf(i) == runId

\* The status the platform persists for a run.
PersistedStatus(id) == IF id = runId THEN remoteStatus ELSE otherStatus

\* Line 181: context.run.refresh()
Refresh(i) ==
    /\ pc[i] = "refresh"
    /\ trace' = [trace EXCEPT ![i] = Append(@, "refresh")]
    /\ \/ \E a \in ErrArgs :
            /\ Except(i, SetStatusStage, a)
            /\ UNCHANGED <<runStatus, refreshed>>
       \/ /\ runStatus' = PersistedStatus(RecordOf(i))
          /\ refreshed' = [refreshed EXCEPT ![i] = PersistedStatus(RecordOf(i))]
          /\ pc' = [pc EXCEPT ![i] = "merge"]
          /\ UNCHANGED <<e, response>>
    /\ UNCHANGED <<event, spec, project, fnc, fnc_args, results, status, new_status, call,
                   escaped, runSpec, remoteStatus,
                   returned, runId, otherStatus, ictx>>

\* The patch alone, persisted without the refreshed status.
MergeStatusPatchOnly(patch, persisted) == patch

\* {**context.run.status.to_dict(), **status}: the patch's value where both have the key.
MergeStatusPatchWins(patch, persisted) == DictUnpack(persisted, patch)

\* Line 182: new_status = {**status, **context.run.status.to_dict()}
MergeStatus(patch, persisted) == DictUnpack(patch, persisted)

\* Lines 182-183: the merge and context.run._set_status(new_status)
SetStatus(i) ==
    /\ pc[i] = "merge"
    /\ new_status' = [new_status EXCEPT ![i] = MergeStatus(status[i], runStatus)]
    /\ trace' = [trace EXCEPT ![i] = Append(@, "_set_status")]
    /\ \/ \E a \in ErrArgs :
            /\ Except(i, SetStatusStage, a)
            /\ UNCHANGED runStatus
       \/ /\ runStatus' = new_status'[i]
          /\ pc' = [pc EXCEPT ![i] = "save"]
          /\ UNCHANGED <<e, response>>
    /\ UNCHANGED <<event, spec, project, fnc, fnc_args, results, status, call,
                   escaped, runSpec, remoteStatus,
                   refreshed, returned, runId, otherStatus, ictx>>

\* Lines 184-197: context.run.save(update=True), then the "OK" response
Save(i) ==
    /\ pc[i] = "save"
    /\ trace' = [trace EXCEPT ![i] = Append(@, "save")]
    /\ \/ \E a \in ErrArgs :
            /\ Except(i, SetStatusStage, a)
            /\ UNCHANGED <<remoteStatus, otherStatus>>
       \/ /\ IF RecordOf(i) = runId
             THEN remoteStatus' = runStatus /\ UNCHANGED otherStatus
             ELSE otherStatus' = runStatus /\ UNCHANGED remoteStatus
          /\ response' = [response EXCEPT ![i] = OkResponse]
          /\ pc' = [pc EXCEPT ![i] = "done"]
          /\ UNCHANGED e
    /\ UNCHANGED <<event, spec, project, fnc, fnc_args, results, status, new_status, call,
                   escaped, runSpec, runStatus,
                   refreshed, returned, runId, ictx>>

\* The host takes what handler_job returned (or raised); the frame is gone.
Deliver(i) ==
    /\ pc[i] = "done"
    /\ pc' = [pc EXCEPT ![i] = "idle"]
    /\ event' = [event EXCEPT ![i] = NoEvent]
    /\ spec' = [spec EXCEPT ![i] = EmptyDict]
    /\ project' = [project EXCEPT ![i] = ""]
    /\ fnc' = [fnc EXCEPT ![i] = NoFunction]
    /\ fnc_args' = [fnc_args EXCEPT ![i] = EmptyDict]
    /\ results' = [results EXCEPT ![i] = EmptyDict]
    /\ status' = [status EXCEPT ![i] = EmptyDict]
    /\ new_status' = [new_status EXCEPT ![i] = EmptyDict]
    /\ e' = [e EXCEPT ![i] = NoException]
    /\ call' = [call EXCEPT ![i] = NoCall]
    /\ trace' = [trace EXCEPT ![i] = << >>]
    /\ response' = [response EXCEPT ![i] = NoResponse]
    /\ escaped' = [escaped EXCEPT ![i] = NoException]
    /\ refreshed' = [refreshed EXCEPT ![i] = EmptyDict]
    /\ returned' = [returned EXCEPT ![i] = NoResponse]
    /\ UNCHANGED <<runSpec, runStatus, remoteStatus,
                   runId, otherStatus, ictx>>

\* The platform writes a field of the persisted status while the run executes.
ExternalWrite ==
    /\ \E v \in ExternalValues : remoteStatus' = DictSet(remoteStatus, "ext", v)
    /\ UNCHANGED <<pc, locals, trace, response, escaped, runSpec, runStatus,
                   refreshed, returned, runId, otherStatus, ictx>>

Next ==
    \/ \E i \in Invocations :
         \/ Receive(i)
         \/ Initialize(i)
         \/ Configure(i)
         \/ SetInputs(i)
         \/ Execute(i)
         \/ BuildStatus(i)
         \/ Refresh(i)
         \/ SetStatus(i)
         \/ Save(i)
         \/ Deliver(i)
    \/ ExternalWrite

Spec == Init /\ [][Next]_vars

----------------------------------------------------------------------------
(* Observations on one invocation *)

Done(i) == pc[i] = "done"

\* handler_job returned a response to the host.
Returned(i) == Done(i) /\ response[i] # NoResponse

\* An except clause of handler_job caught an exception.
Caught(i) == Done(i) /\ e[i] # NoException

LastCall(i) == trace[i][Len(trace[i])]

CountCalls(i, c) == Cardinality({k \in DOMAIN trace[i] : trace[i][k] = c})

Called(i, c) == CountCalls(i, c) > 0

\* The fragment is part of the text.
Contains(text, fragment) == \E k \in DOMAIN text : text[k] = fragment

IsPrefix(s, t) == Len(s) <= Len(t) /\ \A k \in DOMAIN s : s[k] = t[k]

StateOf(st) == DictGet(st, "state", "")

----------------------------------------------------------------------------
(* C1 *)

\* C1: whatever the event (bytes or mapping, well-formed or not, with or without
\* "spec" and "project"), handler_job ends by returning a response object; no
\* exception leaves it.
C1_NeverRaises ==
    \A i \in Invocations :
        Done(i) => escaped[i] = NoException /\ response[i].status_code \in {200, 500}

\* An event whose body is already a mapping has been handled.
C1_MappingBodyHandled ==
    \E i \in Invocations : Done(i) /\ ~event[i].isBytes

----------------------------------------------------------------------------
(* C2 *)

\* C2: when a stage fails and handler_job returns its 500 response, the failure
\* has been recorded on the run: the persisted status has state = "error".
\* (handler_job has no step in which an error write could itself fail, so the
\* "when that write succeeds" of the claim takes nothing away here.)
C2_FailureRecorded ==
    \A i \in Invocations :
        (Returned(i) /\ response[i].status_code = 500)
            => StateOf(remoteStatus) = "error"

\* A stage raised and handler_job returned its 500 response.
C2_StageFailed ==
    \E i \in Invocations : Caught(i) /\ response[i].status_code = 500

----------------------------------------------------------------------------
(* C3 *)

\* C3: the run starts in pending or running, and on every exit path of handler_job
\* the persisted status has left that state, for completed or error, by the time
\* handler_job returns. (Each invocation saves at most once, so a state that has
\* moved has moved exactly once.)
C3_LeavesRunning ==
    \A i \in Invocations :
        Returned(i) => StateOf(remoteStatus) \in {"completed", "error"}

\* handler_job saved the merged status and returned "OK".
C3_SavedAndReturned ==
    \E i \in Invocations :
        Returned(i) /\ response[i].status_code = 200 /\ LastCall(i) = "save"

----------------------------------------------------------------------------
(* C4 *)

\* C4: after handler_job has saved, every key of the built status patch has the
\* patch's value in the persisted status; a patch {state: completed, results: {a: 1}}
\* merged into a persisted {state: running} persists {state: completed, results: {a: 1}}.
C4_PatchWins ==
    \A i \in Invocations :
        (Returned(i) /\ response[i].status_code = 200)
            => \A k \in DOMAIN status[i] :
                   k \in DOMAIN remoteStatus /\ remoteStatus[k] = status[i][k]

\* The claim's example has been saved: the patch over a persisted {state: running}.
C4_ExampleSaved ==
    \E i \in Invocations :
        /\ Returned(i) /\ response[i].status_code = 200
        /\ status[i] = [state |-> "completed", results |-> [a |-> "1"]]
        /\ remoteStatus = [state |-> "running", results |-> [a |-> "1"]]

----------------------------------------------------------------------------
(* C5 *)

\* C5: in every invocation the execution-started marker is set once, before any
\* other stage, and the execution-finished marker is set exactly once, on every
\* exit path.
C5_MarkersOnce ==
    \A i \in Invocations :
        Returned(i) => /\ CountCalls(i, "mark_execution_started") = 1
                       /\ CountCalls(i, "mark_execution_finished") = 1
                       /\ trace[i][1] = "mark_execution_started"
                       /\ LastCall(i) = "mark_execution_finished"

\* An invocation has run all its stages and returned.
C5_AllStagesRun ==
    \E i \in Invocations : Returned(i) /\ Called(i, "save") /\ Called(i, "build_status")

----------------------------------------------------------------------------
(* C6 *)

\* The description the response is to carry when the given call raised.
C6_Description(c) ==
    CASE c = "get_function_from_source" -> "function configuration"
      [] c = "compose_inputs" -> "function inputs configuration"
      [] c = "fnc" -> "function execution"
      [] c = "build_status" -> "building run status"
      [] c \in {"refresh", "_set_status", "save"} -> "run status setting"

C6_Descriptions ==
    {"function configuration", "function inputs configuration", "function execution",
     "building run status", "run status setting"}

C6_Stages ==
    {"get_function_from_source", "compose_inputs", "fnc", "build_status",
     "refresh", "_set_status", "save"}

\* C6: when function configuration, input composition, the user function, status
\* building or status setting raises, the response has status 500 and content type
\* text/plain, and its body carries the description of the stage that raised, of
\* no other stage, and the args of the exception.
C6_FailureResponse ==
    \A i \in Invocations :
        (Caught(i) /\ LastCall(i) \in C6_Stages) =>
            /\ response[i].status_code = 500
            /\ response[i].content_type = "text/plain"
            /\ Contains(response[i].body, C6_Description(LastCall(i)))
            /\ \A d \in C6_Descriptions \ {C6_Description(LastCall(i))} :
                   ~Contains(response[i].body, d)
            /\ e[i] \in ErrArgs
            /\ Contains(response[i].body, e[i])

\* Status setting raised at save, after every earlier stage had passed.
C6_SaveRaised ==
    \E i \in Invocations :
        Caught(i) /\ LastCall(i) = "save" /\ e[i] = "('bad input',)"

----------------------------------------------------------------------------
(* C7 *)

\* The fragments of a body in which the word "output" occurs.
C7_OutputFragments == {"('no output y',)", "output materialization"}

\* C7: when a plain function returns and parse_outputs rejects its result, the
\* response has status 500 and reports an output failure, not a function-execution
\* failure: the stage its body names is not "function execution" and mentions
\* the output.
C7_OutputFailureDistinct ==
    \A i \in Invocations :
        (Caught(i) /\ LastCall(i) = "parse_outputs") =>
            /\ response[i].status_code = 500
            /\ ~Contains(response[i].body, "function execution")
            /\ \E k \in DOMAIN response[i].body :
                   response[i].body[k] \in C7_OutputFragments

\* parse_outputs raised on the result of a plain function.
C7_ParseOutputsRaised ==
    \E i \in Invocations :
        Caught(i) /\ LastCall(i) = "parse_outputs" /\ ~fnc[i].wrapped

----------------------------------------------------------------------------
(* C8 *)

\* C8: when every stage of an invocation has completed without raising, the
\* response has body "OK", status 200 and content type text/plain.
C8_SuccessResponse ==
    \A i \in Invocations :
        (Done(i) /\ escaped[i] = NoException /\ e[i] = NoException) =>
            /\ response[i].body = <<"OK">>
            /\ response[i].status_code = 200
            /\ response[i].content_type = "text/plain"

\* An invocation ran through save with no exception.
C8_AllStagesPassed ==
    \E i \in Invocations :
        Done(i) /\ escaped[i] = NoException /\ e[i] = NoException /\ LastCall(i) = "save"

----------------------------------------------------------------------------
(* C9 *)

\* The calls of a whole invocation, in the order of the stages: configuration,
\* input composition, invocation, output materialization (plain functions),
\* status building, status finalization.
C9_Order(wrapped) ==
    <<"json.loads", "get_function_from_source", "compose_inputs", "fnc">>
    \o (IF wrapped THEN << >> ELSE <<"parse_outputs">>)
    \o <<"build_status", "refresh", "_set_status", "save">>

\* C9: the stages are attempted in the fixed order, each only after every earlier
\* one has completed, and once a stage has raised the invocation is over: no
\* further stage is attempted.
C9_StagesInOrder ==
    \A i \in Invocations :
        /\ IsPrefix(trace[i], C9_Order(fnc[i].wrapped))
        /\ e[i] # NoException => Done(i)

\* Input composition raised: the user function was never called.
C9_InputsRaised ==
    \E i \in Invocations :
        Caught(i) /\ LastCall(i) = "compose_inputs" /\ ~Called(i, "fnc")

----------------------------------------------------------------------------
(* C10 *)

\* The run keys an event may name.
C10_RunKeys == {"r1", "r2"}

\* C10: a function with the wrapped marker is called as
\* function(project_name, run_key, **composed_args) and its return value does not
\* go through parse_outputs; a function without it is called as
\* function(**composed_args) and its return value goes through parse_outputs
\* before the status is built.
C10_CallingConvention ==
    \A i \in Invocations :
        call[i].made =>
            IF fnc[i].wrapped
            THEN /\ Len(call[i].positional) = 2
                 /\ call[i].positional[1] = project[i]
                 /\ call[i].positional[2] \in C10_RunKeys
                 /\ call[i].kwargs = fnc_args[i]
                 /\ ~Called(i, "parse_outputs")
            ELSE /\ call[i].positional = << >>
                 /\ call[i].kwargs = fnc_args[i]
                 /\ Called(i, "build_status") => Called(i, "parse_outputs")

\* A wrapped function has been called and the status built from what it returned.
C10_WrappedCalled ==
    \E i \in Invocations :
        call[i].made /\ fnc[i].wrapped /\ Called(i, "build_status")

----------------------------------------------------------------------------
(* C11 *)

\* The event of the invocation carries a spec that handler_job can read.
C11_CarriesSpec(i) ==
    event[i].isBytes /\ event[i].wellFormed /\ "spec" \in DOMAIN event[i].body

\* C11: when the event body carries a spec, the inputs, parameters and outputs
\* handler_job works with are those of the event's spec; when it carries none,
\* handler_job falls back to the spec of the run loaded at initialization and
\* still handles the event.
C11_EventSpecAuthoritative ==
    \A i \in Invocations :
        /\ (C11_CarriesSpec(i) /\ pc[i] \notin {"idle", "init"} /\ escaped[i] = NoException)
               => \A k \in {"inputs", "parameters", "outputs"} :
                      DictGet(spec[i], k, EmptyDict)
                          = DictGet(event[i].body["spec"], k, EmptyDict)
        /\ (Done(i) /\ event[i].isBytes /\ event[i].wellFormed
                    /\ "project" \in DOMAIN event[i].body
                    /\ "spec" \notin DOMAIN event[i].body)
               => escaped[i] = NoException /\ Called(i, "compose_inputs")

\* An event whose spec names inputs has had its arguments composed.
C11_InputsComposed ==
    \E i \in Invocations :
        /\ C11_CarriesSpec(i)
        /\ "inputs" \in DOMAIN event[i].body["spec"]
        /\ Called(i, "compose_inputs")

----------------------------------------------------------------------------
(* C12 *)

\* The events handled while invocations interleave: well-formed, complete bodies.
InterleavedEvents ==
    { ev \in Events : InitializeRaises(ev) = NoException /\ "outputs" \in DOMAIN ev.body["spec"] }

\* The host hands an event to handler_job while another invocation is in progress.
ReceiveInterleaved(i) ==
    /\ pc[i] = "idle"
    /\ \E ev \in InterleavedEvents : event' = [event EXCEPT ![i] = ev]
    /\ pc' = [pc EXCEPT ![i] = "init"]
    /\ UNCHANGED <<spec, project, fnc, fnc_args, results, status, new_status, e, call,
                   trace, response, escaped, runSpec, runStatus, remoteStatus,
                   refreshed, returned, runId, otherStatus, ictx>>

\* A step of one of the interleaved invocations in which no collaborator raises.
NextInterleaved ==
    \E i \in Invocations :
        \/ ReceiveInterleaved(i) /\ e' = e
        \/ Initialize(i) /\ e' = e
        \/ Configure(i) /\ e' = e
        \/ SetInputs(i) /\ e' = e
        \/ Execute(i) /\ e' = e
        \/ BuildStatus(i) /\ e' = e
        \/ Refresh(i) /\ e' = e
        \/ SetStatus(i) /\ e' = e
        \/ Save(i) /\ e' = e
        \/ Deliver(i) /\ e' = e

\* One context, its run persisted as running.
InitInterleaved ==
    /\ Init
    /\ runId = "r1"
    /\ runSpec = EmptyDict
    /\ remoteStatus = [state |-> "running"]
    /\ otherStatus = [state |-> "pending"]

\* handler_job with the invocations of one context interleaved by the host.
SpecInterleaved == InitInterleaved /\ [][NextInterleaved]_vars

----------------------------------------------------------------------------
(* C13 *)

\* The step in which invocation i saves the run and returns "OK".
SavedStep(i) == pc[i] = "save" /\ pc'[i] = "done" /\ e'[i] = NoException

\* C13: the finalize step is refresh, merge and set status, save, in that order
\* with no other call in between, and every field of the refreshed status that is
\* not a key of the status patch is saved with its refreshed value.
C13_RefreshedFieldsKept ==
    [][\A i \in Invocations :
         SavedStep(i) =>
            /\ Len(trace'[i]) >= 3
            /\ SubSeq(trace'[i], Len(trace'[i]) - 2, Len(trace'[i]))
                   = <<"refresh", "_set_status", "save">>
            /\ \A k \in (DOMAIN refreshed[i]) \ (DOMAIN status[i]) :
                   k \in DOMAIN remoteStatus' /\ remoteStatus'[k] = refreshed[i][k]
      ]_vars

\* A status whose refreshed copy held a field written by the platform was saved.
C13_ExternalFieldSaved ==
    \E i \in Invocations :
        /\ Returned(i) /\ response[i].status_code = 200
        /\ "ext" \in DOMAIN refreshed[i]
        /\ "ext" \notin DOMAIN status[i]
        /\ "ext" \in DOMAIN remoteStatus

----------------------------------------------------------------------------
(* C14 *)

C14_Steps ==
    {"get_function_from_source", "compose_inputs", "fnc", "parse_outputs",
     "build_status", "refresh", "_set_status", "save"}

\* C14: within one invocation no collaborator step is executed twice; in
\* particular the status is saved at most once.
C14_NoRetry ==
    \A i \in Invocations : \A c \in C14_Steps : CountCalls(i, c) <= 1

\* An invocation of a plain function has executed every step.
C14_EveryStepRun ==
    \E i \in Invocations :
        Returned(i) /\ \A c \in C14_Steps : CountCalls(i, c) = 1

----------------------------------------------------------------------------
(* C15 *)

C15_StatusCalls == {"refresh", "_set_status", "save"}

\* C15: the 200 response is returned only when save was the last call and did not
\* raise; and when a stage before status setting raised, the run record has been
\* neither refreshed, set nor saved in that invocation.
C15_PersistBeforeAcknowledge ==
    \A i \in Invocations :
        /\ response[i].status_code = 200
               => /\ Len(trace[i]) > 0
                  /\ LastCall(i) = "save"
                  /\ e[i] = NoException
        /\ (Caught(i) /\ LastCall(i) \notin C15_StatusCalls)
               => /\ response[i].status_code = 500
                  /\ \A c \in C15_StatusCalls : ~Called(i, c)

\* Status building raised after the user function had returned.
C15_BuildStatusRaised ==
    \E i \in Invocations : Caught(i) /\ LastCall(i) = "build_status"

----------------------------------------------------------------------------
(* C16 *)

\* C16: when no write of the platform came between an invocation's refresh and
\* its save, the save changes the value of no key the persisted status already
\* had: it only adds keys.
C16_ExistingKeysKept ==
    [][\A i \in Invocations :
         (SavedStep(i) /\ refreshed[i] = remoteStatus) =>
             \A k \in DOMAIN remoteStatus :
                 k \in DOMAIN remoteStatus' /\ remoteStatus'[k] = remoteStatus[k]
      ]_vars

\* A later invocation built other results and the ones first written are still there.
C16_FirstResultsKept ==
    \E i \in Invocations :
        /\ Returned(i) /\ response[i].status_code = 200
        /\ "results" \in DOMAIN refreshed[i]
        /\ status[i]["results"] # refreshed[i]["results"]
        /\ remoteStatus["results"] = refreshed[i]["results"]

----------------------------------------------------------------------------
(* C17 *)

\* C17: every invocation reads, refreshes and saves the run record init_context
\* loaded, whatever run its event names: the record of another run is never
\* written, a refresh loads the status of the context's run and a save writes it.
C17_ContextRunOnly ==
    [][/\ otherStatus' = otherStatus
       /\ \A i \in Invocations :
            /\ (pc[i] = "init" /\ pc'[i] = "configure")
                   => spec'[i]["inputs"] = DictGet(runSpec, "inputs", EmptyDict)
            /\ (pc[i] = "refresh" /\ pc'[i] = "merge") => runStatus' = remoteStatus
            /\ SavedStep(i) => remoteStatus' = runStatus
      ]_vars

\* An event naming another run than the context's has had its status saved.
C17_OtherRunNamed ==
    \E i \in Invocations :
        /\ Returned(i) /\ response[i].status_code = 200
        /\ event[i].body["id"] # runId
        /\ "results" \in DOMAIN remoteStatus
        /\ "results" \notin DOMAIN otherStatus

----------------------------------------------------------------------------
(* handler_serve, lines 200-223 *)

\* What the user function may return to handler_serve.
ServeReturns ==
    { [body |-> <<"hello">>, headers |-> EmptyDict,
       content_type |-> "application/json", status_code |-> c] : c \in {200, 404} }

\* Line 220: fnc(context, event)
ServeCall == [made |-> TRUE, positional |-> <<"context", "event">>, kwargs |-> EmptyDict]

\* A handler that answers "OK" whatever the user function returned.
ServeResponseOk(r) == OkResponse

\* Line 220: return fnc(context, event)
ServeResponse(r) == r

\* The host hands an event to handler_serve; it handles one event at a time.
ServeReceive(i) ==
    /\ \A j \in Invocations : pc[j] = "idle"
    /\ \E ev \in Events : event' = [event EXCEPT ![i] = ev]
    /\ pc' = [pc EXCEPT ![i] = "serve_configure"]
    /\ UNCHANGED <<spec, project, fnc, fnc_args, results, status, new_status, e, call,
                   trace, response, escaped, runSpec, runStatus, remoteStatus,
                   refreshed, returned, runId, otherStatus, ictx>>

\* Lines 208-213.
ServeConfigure(i) ==
    /\ pc[i] = "serve_configure"
    /\ trace' = [trace EXCEPT ![i] = Append(@, "get_function_from_source")]
    /\ \/ \E a \in ErrArgs :
            /\ Except(i, ConfigurationStage, a)
            /\ UNCHANGED fnc
       \/ \E f \in Functions :
            /\ fnc' = [fnc EXCEPT ![i] = f]
            /\ pc' = [pc EXCEPT ![i] = "serve_execute"]
            /\ UNCHANGED <<e, response>>
    /\ UNCHANGED <<event, spec, project, fnc_args, results, status, new_status, call,
                   escaped, runSpec, runStatus, remoteStatus,
                   refreshed, returned, runId, otherStatus, ictx>>

\* Lines 218-223.
ServeExecute(i) ==
    /\ pc[i] = "serve_execute"
    /\ trace' = [trace EXCEPT ![i] = Append(@, "fnc")]
    /\ call' = [call EXCEPT ![i] = ServeCall]
    /\ \/ \E a \in ErrArgs :
            /\ Except(i, ExecutionStage, a)
            /\ UNCHANGED returned
       \/ \E r \in ServeReturns :
            /\ returned' = [returned EXCEPT ![i] = r]
            /\ response' = [response EXCEPT ![i] = ServeResponse(r)]
            /\ pc' = [pc EXCEPT ![i] = "done"]
            /\ UNCHANGED e
    /\ UNCHANGED <<event, spec, project, fnc, fnc_args, results, status, new_status,
                   escaped, runSpec, runStatus, remoteStatus,
                   refreshed, runId, otherStatus, ictx>>

NextServe ==
    \/ \E i \in Invocations :
         \/ ServeReceive(i)
         \/ ServeConfigure(i)
         \/ ServeExecute(i)
         \/ Deliver(i)
    \/ ExternalWrite

\* handler_serve over the context that init_context built.
SpecServe == Init /\ [][NextServe]_vars

----------------------------------------------------------------------------
(* C18 *)

\* C18: handler_serve resolves the user function on every event and then calls it
\* once, as fnc(context, event). When the resolution raises, the function is not
\* called and the response is a 500 naming function configuration; when the
\* function raises, the response is a 500 naming function execution; otherwise
\* the response is what the function returned, unchanged. The run's status is
\* neither refreshed, set nor saved.
C18_Serve ==
    \A i \in Invocations :
        /\ IsPrefix(trace[i], <<"get_function_from_source", "fnc">>)
        /\ escaped[i] = NoException
        /\ call[i].made => call[i] = [made |-> TRUE, positional |-> <<"context", "event">>,
                                      kwargs |-> EmptyDict]
        /\ call[i].made <=> Called(i, "fnc")
        /\ (Caught(i) /\ LastCall(i) = "get_function_from_source")
               => /\ ~Called(i, "fnc")
                  /\ response[i].status_code = 500
                  /\ Contains(response[i].body, "function configuration")
                  /\ Contains(response[i].body, e[i])
        /\ (Caught(i) /\ LastCall(i) = "fnc")
               => /\ response[i].status_code = 500
                  /\ Contains(response[i].body, "function execution")
                  /\ Contains(response[i].body, e[i])
        /\ (Done(i) /\ e[i] = NoException)
               => /\ trace[i] = <<"get_function_from_source", "fnc">>
                  /\ returned[i] \in ServeReturns
                  /\ response[i] = returned[i]
        /\ runStatus \in InitialStatuses
        /\ "results" \notin DOMAIN remoteStatus

\* The user function answered 404 and handler_serve returned that answer.
C18_UserResponseReturned ==
    \E i \in Invocations :
        Done(i) /\ e[i] = NoException /\ Called(i, "fnc") /\ response[i].status_code = 404

----------------------------------------------------------------------------
(* init_context and get_init_function, lines 41-98 *)

\* How many requirements a run's spec may list.
MaxRequirements == 2

RECURSIVE SeqsUpTo(_, _)
\* The sequences over a set, up to a length.
SeqsUpTo(S, n) ==
    IF n = 0 THEN { << >> }
    ELSE SeqsUpTo(S, n - 1)
         \cup { Append(q, x) : q \in { r \in SeqsUpTo(S, n - 1) : Len(r) = n - 1 }, x \in S }

\* run.spec.to_dict().get("requirements", [])
RequirementLists == SeqsUpTo({"numpy", "pandas"}, MaxRequirements)

\* run.spec.to_dict().get("source", {})
SourceSpecs ==
    { EmptyDict,
      [handler |-> "main:f"],
      [init_function |-> "init"],
      [handler |-> "main:f", init_function |-> "init"] }

InitStage == "init function configuration"

\* get_init_function that looks for the init function whatever the source declares.
DeclaresInitFunctionAlways(source) == TRUE

\* Line 57: "init_function" in source_spec
DeclaresInitFunction(source) == "init_function" \in DOMAIN source

\* Lines 59-62: source_spec["handler"] and source_spec["init_function"] are read.
ResolutionKeyError(source) == ~({"handler", "init_function"} \subseteq DOMAIN source)

handlerVars ==
    <<pc, locals, trace, response, escaped, runSpec, remoteStatus,
      refreshed, returned, runId, otherStatus>>

\* The context before init_context runs: nothing set, nothing installed.
InitContext ==
    /\ InitHandlers
    /\ runStatus = EmptyDict
    /\ \E reqs \in RequirementLists, src \in SourceSpecs :
         ictx = [pc |-> "start", requirements |-> reqs, source |-> src,
                 attrs |-> {}, installed |-> << >>, init_calls |-> 0,
                 caught |-> NoException, response |-> NoResponse,
                 escaped |-> NoException]

\* Lines 72-76: dh.get_project, dh.get_run; an exception here leaves init_context.
InitGetRun ==
    /\ ictx.pc = "start"
    /\ \/ \E a \in ErrArgs :
            /\ ictx' = [ictx EXCEPT !.pc = "done", !.escaped = a]
            /\ UNCHANGED runStatus
       \/ /\ ictx' = [ictx EXCEPT !.pc = "attrs"]
          /\ runStatus' = remoteStatus
    /\ UNCHANGED handlerVars

\* Lines 79-80: setattr(context, "project", project); setattr(context, "run", run)
InitSetAttributes ==
    /\ ictx.pc = "attrs"
    /\ ictx' = [ictx EXCEPT !.pc = "requirements", !.attrs = @ \cup {"project", "run"}]
    /\ UNCHANGED <<handlerVars, runStatus>>

\* Lines 83-85: pip.main(["install", req]) for each requirement, in order.
InitInstall ==
    /\ ictx.pc = "requirements"
    /\ IF Len(ictx.installed) < Len(ictx.requirements)
       THEN ictx' = [ictx EXCEPT
                       !.installed = Append(@, ictx.requirements[Len(ictx.installed) + 1])]
       ELSE ictx' = [ictx EXCEPT !.pc = "root"]
    /\ UNCHANGED <<handlerVars, runStatus>>

\* Lines 87-90: the root directory; an exception here leaves init_context.
InitRoot ==
    /\ ictx.pc = "root"
    /\ \/ \E a \in ErrArgs : ictx' = [ictx EXCEPT !.pc = "done", !.escaped = a]
       \/ ictx' = [ictx EXCEPT !.pc = "init_function", !.attrs = @ \cup {"root"}]
    /\ UNCHANGED <<handlerVars, runStatus>>

\* Lines 96-98: msg = f"... init function configuration. {e.args}"; return render_error(msg, context)
InitExcept(args) ==
    [ictx EXCEPT !.pc = "done", !.caught = args,
                 !.response = render_error(ErrorMessage(InitStage, args))]

\* Lines 92-98, with get_init_function (lines 57-62).
InitFunction ==
    /\ ictx.pc = "init_function"
    /\ IF ~DeclaresInitFunction(ictx.source)
       THEN ictx' = [ictx EXCEPT !.pc = "done"]            \* init_function is None
       ELSE IF ResolutionKeyError(ictx.source)
       THEN ictx' = InitExcept("('handler',)")
       ELSE \/ \E a \in ErrArgs : ictx' = InitExcept(a)    \* the resolution raises
            \/ \E a \in ErrArgs :                          \* init_function(context) raises
                 ictx' = [InitExcept(a) EXCEPT !.init_calls = @ + 1]
            \/ ictx' = [ictx EXCEPT !.pc = "done", !.init_calls = @ + 1]
    /\ UNCHANGED <<handlerVars, runStatus>>

\* The platform writes a field of the persisted status while the context is built.
InitExternalWrite ==
    /\ ictx.pc # "done"
    /\ \E v \in ExternalValues : remoteStatus' = DictSet(remoteStatus, "ext", v)
    /\ UNCHANGED <<pc, locals, trace, response, escaped, runSpec, runStatus,
                   refreshed, returned, runId, otherStatus, ictx>>

NextInit ==
    \/ InitGetRun
    \/ InitSetAttributes
    \/ InitInstall
    \/ InitRoot
    \/ InitFunction
    \/ InitExternalWrite

\* init_context, from the host's call to its return.
SpecInit == InitContext /\ [][NextInit]_vars

----------------------------------------------------------------------------
(* C19 *)

\* C19: init_context calls the user's init function at most once, only when the
\* run's source declares init_function, and only once project, run and root are
\* set on the context and every requirement is installed; an exception of the
\* resolution or of the init function does not leave init_context but becomes a
\* 500 response.
C19_InitFunction ==
    /\ ictx.init_calls <= 1
    /\ ictx.init_calls = 1 =>
          /\ "init_function" \in DOMAIN ictx.source
          /\ {"project", "run", "root"} \subseteq ictx.attrs
          /\ ictx.installed = ictx.requirements
    /\ ictx.caught # NoException =>
          /\ ictx.pc = "done"
          /\ ictx.escaped = NoException
          /\ "init_function" \in DOMAIN ictx.source
          /\ ictx.response.status_code = 500
          /\ ictx.response.content_type = "text/plain"
          /\ Contains(ictx.response.body, "init function configuration")
          /\ Contains(ictx.response.body, ictx.caught)

\* The init function ran after two requirements were installed, and raised.
C19_InitFunctionRaised ==
    /\ ictx.init_calls = 1
    /\ Len(ictx.installed) = 2
    /\ ictx.caught = "('bad input',)"
    /\ ictx.response.status_code = 500

====
